---- MODULE Spec2Model ----
(***************************************************************************)
(* Model of the G-code generator scripts:                                  *)
(*   src/tools/generate_gcode.py            (GCodeGenerator + generators)  *)
(*   src/spike/graphics_performance_spike/generate_gcode.py  (generators)  *)
(*                                                                         *)
(* A Python number is a record [t, n, d]: t = "num" is the rational n/d    *)
(* (d > 0, lowest terms), t = "inf" is +/-infinity (sign in n), t = "nan"  *)
(* is not-a-number and t = "None" is Python's None.  A command is a record *)
(* whose DOMAIN is the key set of the Python dict.                         *)
(***************************************************************************)
EXTENDS Integers, Sequences, FiniteSets, TLC

VARIABLES
    \* GCodeGenerator
    work_envelope,         \* self.work_envelope
    commands,              \* self.commands
    phase,                 \* "building" | "written" | "raised"
    scale_factor,          \* local of generate_and_write (None until computed)
    transformed_commands,  \* local of generate_and_write
    file,                  \* the lines of the output file
    \* _write_file run on its own
    wcmds,                 \* the command sequence serialized repeatedly
    wcur,                  \* the `commands` argument of the current run
    wpos,                  \* loop position in wcur (0: no run open)
    current_feed_rate,     \* the local of the same name
    wlines,                \* lines written so far by the current run
    wfirst,                \* the file left by the first finished run on wcmds
    wdone,                 \* has a run on wcmds finished
    wruns,                 \* the finished runs, in order: "main" (on wcmds) or "other"
    \* generate_grid_pattern
    g_pc, g_N, g_count, g_i, g_j, g_op_count, g_emitted, g_kinds,
    \* generate_text_engraving
    t_pc, t_text, t_N, t_pos, t_op_count, t_char_x, t_log,
    \* generate_fractal_pattern
    f_pc, f_depth, f_N, f_i, f_total_ops, f_max_depth, f_remaining, f_stack,
    f_ops, f_expanded, f_calls,
    \* generate_spiral_pattern
    s_pc, s_args, s_n, s_i, s_cmds, s_steps,
    \* main
    m_pc, m_cmds

gen_vars   == <<work_envelope, commands, phase, scale_factor, transformed_commands, file>>
write_vars == <<wcmds, wcur, wpos, current_feed_rate, wlines, wfirst, wdone, wruns>>
grid_vars  == <<g_pc, g_N, g_count, g_i, g_j, g_op_count, g_emitted, g_kinds>>
text_vars  == <<t_pc, t_text, t_N, t_pos, t_op_count, t_char_x, t_log>>
frac_vars  == <<f_pc, f_depth, f_N, f_i, f_total_ops, f_max_depth, f_remaining, f_stack,
                f_ops, f_expanded, f_calls>>
spiral_vars == <<s_pc, s_args, s_n, s_i, s_cmds, s_steps>>
main_vars  == <<m_pc, m_cmds>>
vars       == <<gen_vars, write_vars, grid_vars, text_vars, frac_vars, spiral_vars,
                main_vars>>

----------------------------------------------------------------------------
(* Python numbers *)

None    == [t |-> "None", n |-> 0, d |-> 1]
NaN     == [t |-> "nan",  n |-> 0, d |-> 1]
Inf     == [t |-> "inf",  n |-> 1, d |-> 1]
NegInf  == [t |-> "inf",  n |-> -1, d |-> 1]

IsNum(v) == v.t = "num"

Abs(a) == IF a < 0 THEN -a ELSE a

RECURSIVE GCD(_, _)
GCD(a, b) == IF b = 0 THEN a ELSE GCD(b, a % b)

\* the rational n/d in lowest terms with a positive denominator
Rat(n, d) ==
    LET s == IF d < 0 THEN -1 ELSE 1
        g == GCD(Abs(n), Abs(d))
    IN  [t |-> "num", n |-> (s * n) \div g, d |-> (s * d) \div g]

Num(k) == [t |-> "num", n |-> k, d |-> 1]

RSub(a, b) ==
    LET g == GCD(a.d, b.d)
    IN  Rat(a.n * (b.d \div g) - b.n * (a.d \div g), (a.d \div g) * b.d)

\* both factors are in lowest terms, so cross-cancelling leaves lowest terms
RMul(a, b) ==
    LET g1 == GCD(Abs(a.n), b.d)
        g2 == GCD(Abs(b.n), a.d)
    IN  [t |-> "num", n |-> (a.n \div g1) * (b.n \div g2), d |-> (a.d \div g2) * (b.d \div g1)]

\* a / b for b # 0
RDiv(a, b) ==
    RMul(a, IF b.n < 0 THEN [t |-> "num", n |-> -b.d, d |-> -b.n]
                       ELSE [t |-> "num", n |-> b.d, d |-> b.n])

\* a < b, decided on the integer parts first and on the fractions otherwise
RLess(a, b) ==
    LET ia == a.n \div a.d
        ib == b.n \div b.d
        g  == GCD(a.d, b.d)
    IN  IF ia # ib THEN ia < ib
        ELSE (a.n % a.d) * (b.d \div g) < (b.n % b.d) * (a.d \div g)

RLeq(a, b) == ~RLess(b, a)

\* Python float comparison  a < b  (False whenever a NaN is involved)
FLess(a, b) ==
    CASE a.t = "nan" \/ b.t = "nan" -> FALSE
      [] a.t = "inf" /\ b.t = "inf" -> a.n < b.n
      [] a.t = "inf" -> a.n < 0
      [] b.t = "inf" -> b.n > 0
      [] OTHER -> RLess(a, b)

\* Python float product  a * b  with a finite
FMul(a, b) ==
    CASE b.t = "nan" -> NaN
      [] b.t = "inf" -> IF a.n = 0 THEN NaN
                        ELSE IF (a.n > 0) = (b.n > 0) THEN Inf ELSE NegInf
      [] OTHER -> RMul(a, b)

----------------------------------------------------------------------------
(* GCodeGenerator: the command buffer *)

Has(c, k) == k \in DOMAIN c

\* kwargs['cmd'] = cmd; self.commands.append(kwargs)
add_command(cmds, cmd, kwargs) == Append(cmds, [cmd |-> cmd] @@ kwargs)

----------------------------------------------------------------------------
(* GCodeGenerator._write_file: the serializer *)

RECURSIVE Pow10(_)
Pow10(k) == IF k = 0 THEN 1 ELSE 10 * Pow10(k - 1)

\* n/d rounded to the nearest multiple of 1/scale (ties to even), as a count
\* of such multiples
RoundDiv(n, d, scale) ==
    LET ip  == n \div d
        rem == n % d
        q   == (rem * scale) \div d
        r   == rem * scale - q * d
        up  == (2 * r > d) \/ (2 * r = d /\ q % 2 = 1)
    IN  ip * scale + q + (IF up THEN 1 ELSE 0)

\* f"{v:.<digits>f}": a fixed-point numeral with that many decimals
\* ("inf" and "nan" print as such)
Fmt(v, digits) ==
    IF IsNum(v)
    THEN [t |-> "fixed", n |-> RoundDiv(v.n, v.d, Pow10(digits)), d |-> Pow10(digits)]
    ELSE v

Tok(k, v) == <<[k |-> k, v |-> v]>>

Present(c, k) == Has(c, k) /\ c[k] # None

\* (variant: the F token is written whenever a feed rate is given)
EmitsF_Always(cmd_data, cfr) == Present(cmd_data, "f")

\* does this command put an F token on its line, given the tracked feed rate
EmitsF(cmd_data, cfr) == Present(cmd_data, "f") /\ cfr # cmd_data.f

\* current_feed_rate after the command's loop iteration
FeedAfter(cmd_data, cfr) ==
    IF cmd_data.cmd \in {"comment", "raw"} THEN cfr
    ELSE IF EmitsF(cmd_data, cfr) THEN cmd_data.f ELSE cfr

\* (variant: a coordinate that is None is written as zero)
CoordToken_Defaulted(cmd_data, key, letter) ==
    IF Has(cmd_data, key)
    THEN Tok(letter, Fmt(IF cmd_data[key] = None THEN Num(0) ELSE cmd_data[key], 3))
    ELSE <<>>

\* if 'x' in cmd_data and cmd_data['x'] is not None: line_parts.append(f"X{...:.3f}")
CoordToken(cmd_data, key, letter) ==
    IF Present(cmd_data, key) THEN Tok(letter, Fmt(cmd_data[key], 3)) ELSE <<>>

\* the line one loop iteration writes
RenderLine(cmd_data, cfr) ==
    CASE cmd_data.cmd = "comment" ->
           [fmt |-> "comment", head |-> ";", params |-> <<>>, tail |-> cmd_data.text]
      [] cmd_data.cmd = "raw" ->
           [fmt |-> "raw", head |-> cmd_data.gcode, params |-> <<>>, tail |-> ""]
      [] OTHER ->
           [fmt |-> "cmd",
            head |-> cmd_data.cmd,
            params |->
                 (IF Has(cmd_data, "t") THEN Tok("T", cmd_data.t) ELSE <<>>)
              \o (IF Has(cmd_data, "s") THEN Tok("S", cmd_data.s) ELSE <<>>)
              \o (IF Has(cmd_data, "p") THEN Tok("P", Fmt(cmd_data.p, 1)) ELSE <<>>)
              \o CoordToken(cmd_data, "x", "X")
              \o CoordToken(cmd_data, "y", "Y")
              \o CoordToken(cmd_data, "z", "Z")
              \o CoordToken(cmd_data, "i", "I")
              \o CoordToken(cmd_data, "j", "J")
              \o (IF EmitsF(cmd_data, cfr)
                  THEN Tok("F", cmd_data.f) ELSE <<>>),
            tail |-> IF Has(cmd_data, "comment") /\ cmd_data.comment # ""
                     THEN cmd_data.comment ELSE ""]

\* the loop of _write_file from position k on, with the tracked feed rate cfr
RECURSIVE WriteFrom(_, _, _)
WriteFrom(cmds, k, cfr) ==
    IF k > Len(cmds) THEN <<>>
    ELSE <<RenderLine(cmds[k], cfr)>> \o WriteFrom(cmds, k + 1, FeedAfter(cmds[k], cfr))

\* (variant: the tracked feed rate survives from one run to the next)
RunStartFeed_Carried(left_behind) == left_behind

\* current_feed_rate = None: the value the tracked feed rate takes when a run
\* starts, whatever an earlier run left behind
RunStartFeed(left_behind) == None

\* the whole file one call of _write_file leaves behind
write_file(cmds) == WriteFrom(cmds, 1, RunStartFeed(None))

----------------------------------------------------------------------------
(* GCodeGenerator.generate_and_write: the bounding-box scaler *)

Eps == Rat(1, 1000000)

coords(cmds) == SelectSeq(cmds, LAMBDA c : \E k \in {"x", "y", "z"} : Has(c, k))

AxisValues(cs, k) == { cs[n][k] : n \in { m \in 1..Len(cs) : Present(cs[m], k) } }

\* min(..., default=0) and max(..., default=0)
MinDefault(S) == IF S = {} THEN Num(0) ELSE CHOOSE m \in S : \A o \in S : RLeq(m, o)
MaxDefault(S) == IF S = {} THEN Num(0) ELSE CHOOSE m \in S : \A o \in S : RLeq(o, m)

\* envelope_dim / extent if extent > 1e-6 else float('inf')
ScaleCandidate(dim, extent) == IF RLess(Eps, extent) THEN RDiv(dim, extent) ELSE Inf

\* the candidates that pass  "if s > 0"
PositiveCandidates(sx, sy, sz) == { s \in {sx, sy, sz} : FLess(Num(0), s) }

\* (variant: the largest candidate is taken)
MinCandidate_Largest(S) == CHOOSE m \in S : \A o \in S : ~FLess(m, o)

\* min(s for s in [scale_x, scale_y, scale_z] if s > 0)
MinCandidate(S) == CHOOSE m \in S : \A o \in S : ~FLess(o, m)

\* (variant: arc offsets are translated like the absolute coordinates)
ScaleCmd_TranslatedOffsets(cmd, min_x, min_y, min_z, sf) ==
    [k \in DOMAIN cmd |->
        CASE k = "x" /\ cmd[k] # None -> FMul(RSub(cmd[k], min_x), sf)
          [] k = "y" /\ cmd[k] # None -> FMul(RSub(cmd[k], min_y), sf)
          [] k = "z" /\ cmd[k] # None -> FMul(RSub(cmd[k], min_z), sf)
          [] k = "i" /\ cmd[k] # None -> FMul(RSub(cmd[k], min_x), sf)
          [] k = "j" /\ cmd[k] # None -> FMul(RSub(cmd[k], min_y), sf)
          [] OTHER -> cmd[k]]

\* (variant: a coordinate that is None is scaled as zero)
ScaleCmd_NoneAsZero(cmd, min_x, min_y, min_z, sf) ==
    [k \in DOMAIN cmd |->
        CASE k = "x" -> FMul(RSub(IF cmd[k] = None THEN Num(0) ELSE cmd[k], min_x), sf)
          [] k = "y" -> FMul(RSub(IF cmd[k] = None THEN Num(0) ELSE cmd[k], min_y), sf)
          [] k = "z" -> FMul(RSub(IF cmd[k] = None THEN Num(0) ELSE cmd[k], min_z), sf)
          [] k = "i" /\ cmd[k] # None -> FMul(cmd[k], sf)
          [] k = "j" /\ cmd[k] # None -> FMul(cmd[k], sf)
          [] OTHER -> cmd[k]]

\* (variant: the feed rate is scaled with the coordinates)
ScaleCmd_FeedScaled(cmd, min_x, min_y, min_z, sf) ==
    [k \in DOMAIN cmd |->
        CASE k = "x" /\ cmd[k] # None -> FMul(RSub(cmd[k], min_x), sf)
          [] k = "y" /\ cmd[k] # None -> FMul(RSub(cmd[k], min_y), sf)
          [] k = "z" /\ cmd[k] # None -> FMul(RSub(cmd[k], min_z), sf)
          [] k = "i" /\ cmd[k] # None -> FMul(cmd[k], sf)
          [] k = "j" /\ cmd[k] # None -> FMul(cmd[k], sf)
          [] k = "f" /\ cmd[k] # None -> FMul(cmd[k], sf)
          [] OTHER -> cmd[k]]

\* one iteration of the transform loop
ScaleCmd(cmd, min_x, min_y, min_z, sf) ==
    [k \in DOMAIN cmd |->
        CASE k = "x" /\ cmd[k] # None -> FMul(RSub(cmd[k], min_x), sf)
          [] k = "y" /\ cmd[k] # None -> FMul(RSub(cmd[k], min_y), sf)
          [] k = "z" /\ cmd[k] # None -> FMul(RSub(cmd[k], min_z), sf)
          [] k = "i" /\ cmd[k] # None -> FMul(cmd[k], sf)
          [] k = "j" /\ cmd[k] # None -> FMul(cmd[k], sf)
          [] OTHER -> cmd[k]]

\* what generate_and_write computes from the buffer and the envelope:
\* raised = TRUE when min() is handed an empty sequence (ValueError)
Scaling(env, cmds) ==
    LET cs    == coords(cmds)
        min_x == MinDefault(AxisValues(cs, "x"))
        max_x == MaxDefault(AxisValues(cs, "x"))
        min_y == MinDefault(AxisValues(cs, "y"))
        max_y == MaxDefault(AxisValues(cs, "y"))
        min_z == MinDefault(AxisValues(cs, "z"))
        max_z == MaxDefault(AxisValues(cs, "z"))
        original_width  == RSub(max_x, min_x)
        original_depth  == RSub(max_y, min_y)
        original_height == RSub(max_z, min_z)
        scale_x == ScaleCandidate(env.width,  original_width)
        scale_y == ScaleCandidate(env.depth,  original_depth)
        scale_z == ScaleCandidate(env.height, original_height)
        pos     == PositiveCandidates(scale_x, scale_y, scale_z)
    IN  IF pos = {}
        THEN [raised |-> TRUE, scale_factor |-> None, transformed_commands |-> <<>>]
        ELSE LET sf == MinCandidate(pos)
             IN  [raised |-> FALSE,
                  scale_factor |-> sf,
                  transformed_commands |->
                      [n \in 1..Len(cmds) |-> ScaleCmd(cmds[n], min_x, min_y, min_z, sf)]]

----------------------------------------------------------------------------
(* Bounds and input sets *)

MaxCmds == 3

Tiny == Eps

Envelope(w, d, h) == [width |-> Num(w), depth |-> Num(d), height |-> Num(h)]

\* a wide, shallow envelope: 2000 x 4000 x 0.001
ShallowEnvelope == [width |-> Num(2000), depth |-> Num(4000), height |-> Rat(1, 1000)]

Envelopes == {Envelope(4, 2, 1), ShallowEnvelope, Envelope(0, 2, 1), Envelope(0, 0, 0)}

G0Args == { [x |-> None,   y |-> None,   z |-> None],
            [x |-> Num(0), y |-> Num(0), z |-> Tiny],
            [x |-> Num(2), y |-> Num(1), z |-> Num(1)] }
G1Args == { [x |-> Num(1), y |-> Num(3), z |-> None,   f |-> Num(300)],
            [x |-> None,   y |-> None,   z |-> Num(0), f |-> Num(300)] }
G2Args == { [x |-> Num(3), y |-> Num(1), i |-> Num(-1), j |-> Num(0), f |-> None],
            [x |-> Num(1), y |-> Num(2), i |-> None,    j |-> Num(2), f |-> Num(800)] }

\* the other variable groups, parked
WriteIdle == /\ wcmds = <<>> /\ wcur = <<>> /\ wpos = 0 /\ current_feed_rate = None
             /\ wlines = <<>> /\ wfirst = <<>> /\ wdone = FALSE /\ wruns = <<>>
GridIdle  == /\ g_pc = "idle" /\ g_N = 0 /\ g_count = 0 /\ g_i = 0 /\ g_j = 0
             /\ g_op_count = 0 /\ g_emitted = 0 /\ g_kinds = <<>>
TextIdle  == /\ t_pc = "idle" /\ t_text = <<>> /\ t_N = 0 /\ t_pos = 0
             /\ t_op_count = 0 /\ t_char_x = 0 /\ t_log = <<>>
FracIdle  == /\ f_pc = "idle" /\ f_depth = 0 /\ f_N = 0 /\ f_i = 0 /\ f_total_ops = 0
             /\ f_max_depth = 0 /\ f_remaining = 0 /\ f_stack = <<>> /\ f_ops = 0
             /\ f_expanded = 0 /\ f_calls = 0
GenIdle   == /\ work_envelope = Envelope(0, 0, 0) /\ commands = <<>> /\ phase = "idle"
             /\ scale_factor = None /\ transformed_commands = <<>> /\ file = <<>>
SpiralIdle == /\ s_pc = "idle" /\ s_args = <<>> /\ s_n = 0 /\ s_i = 0 /\ s_cmds = <<>>
              /\ s_steps = <<>>
MainIdle  == /\ m_pc = 0 /\ m_cmds = <<>>

----------------------------------------------------------------------------
(* Spec: a GCodeGenerator is built, filled through its add_* methods and     *)
(* written once with generate_and_write                                      *)

\* __init__
Init ==
    /\ work_envelope \in Envelopes
    /\ commands = <<>>
    /\ phase = "building"
    /\ scale_factor = None
    /\ transformed_commands = <<>>
    /\ file = <<>>
    /\ WriteIdle /\ GridIdle /\ TextIdle /\ FracIdle /\ SpiralIdle /\ MainIdle

CanAdd == phase = "building" /\ Len(commands) < MaxCmds

Appended(cmd, kwargs) ==
    /\ commands' = add_command(commands, cmd, kwargs)
    /\ UNCHANGED <<work_envelope, phase, scale_factor, transformed_commands, file>>
    /\ UNCHANGED <<write_vars, grid_vars, text_vars, frac_vars, spiral_vars,
                   main_vars>>

add_comment == CanAdd /\ Appended("comment", [text |-> "header"])
add_raw     == CanAdd /\ Appended("raw", [gcode |-> ""])
add_g0      == CanAdd /\ \E a \in G0Args : Appended("G0", [x |-> a.x, y |-> a.y, z |-> a.z])
add_g1      == CanAdd /\ \E a \in G1Args :
                   Appended("G1", [x |-> a.x, y |-> a.y, z |-> a.z, f |-> a.f])
add_g2      == CanAdd /\ \E a \in G2Args :
                   Appended("G2", [x |-> a.x, y |-> a.y, i |-> a.i, j |-> a.j, f |-> a.f])
add_m3      == CanAdd /\ Appended("M3", [s |-> Num(15000)])
add_m5      == CanAdd /\ Appended("M5", <<>>)
add_m6      == CanAdd /\ Appended("M6", [t |-> Num(2), comment |-> "Load Tool"])
add_dwell   == CanAdd /\ Appended("G4", [p |-> Num(2)])

generate_and_write ==
    /\ phase = "building"
    /\ IF coords(commands) = <<>>
       THEN \* no coordinates found: the buffer is written as it is
            /\ file' = write_file(commands)
            /\ phase' = "written"
            /\ UNCHANGED <<scale_factor, transformed_commands>>
       ELSE LET r == Scaling(work_envelope, commands)
            IN  IF r.raised
                THEN \* the exception leaves generate_and_write before the file is opened
                     /\ phase' = "raised"
                     /\ UNCHANGED <<scale_factor, transformed_commands, file>>
                ELSE /\ scale_factor' = r.scale_factor
                     /\ transformed_commands' = r.transformed_commands
                     /\ file' = write_file(r.transformed_commands)
                     /\ phase' = "written"
    /\ UNCHANGED <<work_envelope, commands>>
    /\ UNCHANGED <<write_vars, grid_vars, text_vars, frac_vars, spiral_vars,
                   main_vars>>

Next ==
    \/ add_comment \/ add_raw \/ add_g0 \/ add_g1 \/ add_g2
    \/ add_m3 \/ add_m5 \/ add_m6 \/ add_dwell
    \/ generate_and_write

Spec == Init /\ [][Next]_vars

----------------------------------------------------------------------------
(* SpecWrite: _write_file called several times, on one command sequence and  *)
(* on others in between; one step per loop iteration                         *)

MaxLen  == 5
MaxRuns == 3

G1Feed(f) == [cmd |-> "G1", x |-> Num(1), y |-> None, z |-> None, f |-> f]

WriteCmds == { G1Feed(Num(300)), G1Feed(Num(1000)), G1Feed(None),
               [cmd |-> "comment", text |-> "pass"] }

OtherSeqs == { <<G1Feed(Num(1000))>>, <<G1Feed(Num(300)), G1Feed(None)>> }

InitWrite ==
    /\ wcmds \in UNION { [1..n -> WriteCmds] : n \in 0..MaxLen }
    /\ wcur = <<>>
    /\ wpos = 0
    /\ current_feed_rate = None
    /\ wlines = <<>>
    /\ wfirst = <<>>
    /\ wdone = FALSE
    /\ wruns = <<>>
    /\ GenIdle /\ GridIdle /\ TextIdle /\ FracIdle /\ SpiralIdle /\ MainIdle

\* with open(filename, 'w') as f: current_feed_rate = None
write_open ==
    /\ wpos = 0
    /\ Len(wruns) < MaxRuns
    /\ \E cmds \in {wcmds} \cup OtherSeqs : wcur' = cmds
    /\ wpos' = 1
    /\ wlines' = <<>>
    /\ current_feed_rate' = RunStartFeed(current_feed_rate)
    /\ UNCHANGED <<wcmds, wfirst, wdone, wruns>>
    /\ UNCHANGED <<gen_vars, grid_vars, text_vars, frac_vars, spiral_vars,
                   main_vars>>

\* for cmd_data in commands: ... f.write(...)
write_line ==
    /\ wpos >= 1
    /\ wpos <= Len(wcur)
    /\ wlines' = Append(wlines, RenderLine(wcur[wpos], current_feed_rate))
    /\ current_feed_rate' = FeedAfter(wcur[wpos], current_feed_rate)
    /\ wpos' = wpos + 1
    /\ UNCHANGED <<wcmds, wcur, wfirst, wdone, wruns>>
    /\ UNCHANGED <<gen_vars, grid_vars, text_vars, frac_vars, spiral_vars,
                   main_vars>>

\* the loop ends and the file is closed
write_close ==
    /\ wpos >= 1
    /\ wpos > Len(wcur)
    /\ wpos' = 0
    /\ wruns' = Append(wruns, IF wcur = wcmds THEN "main" ELSE "other")
    /\ IF wcur = wcmds /\ ~wdone
       THEN wfirst' = wlines /\ wdone' = TRUE
       ELSE UNCHANGED <<wfirst, wdone>>
    /\ UNCHANGED <<wcmds, wcur, current_feed_rate, wlines>>
    /\ UNCHANGED <<gen_vars, grid_vars, text_vars, frac_vars, spiral_vars,
                   main_vars>>

NextWrite == write_open \/ write_line \/ write_close

SpecWrite == InitWrite /\ [][NextWrite]_vars

----------------------------------------------------------------------------
(* SpecGrid: generate_grid_pattern, one step per pass through the inner loop *)

MaxGridOps == 14
MaxCount   == 3

\* a pattern: what it adds to op_count and how many commands it appends
SquarePattern   == [kind |-> "square",   ops |-> 4, appended |-> 4]
CirclePattern   == [kind |-> "circle",   ops |-> 4, appended |-> 5]
TrianglePattern == [kind |-> "triangle", ops |-> 3, appended |-> 3]
WavePattern     == [kind |-> "wave",     ops |-> 8, appended |-> 8]

\* pattern_type = op_count % 4
PatternFor(op_count) ==
    CASE op_count % 4 = 0 -> SquarePattern
      [] op_count % 4 = 1 -> CirclePattern
      [] op_count % 4 = 2 -> TrianglePattern
      [] OTHER            -> WavePattern

InitGrid ==
    /\ g_pc = "loop"
    /\ g_N \in 1..MaxGridOps
    /\ g_count \in 1..MaxCount
    /\ g_i = 0
    /\ g_j = 0
    /\ g_op_count = 0
    /\ g_emitted = 0
    /\ g_kinds = <<>>
    /\ GenIdle /\ WriteIdle /\ TextIdle /\ FracIdle /\ SpiralIdle /\ MainIdle

\* one grid cell: the body of "for j in range(count)" past the first check
grid_cell ==
    /\ g_pc = "loop"
    /\ g_i < g_count
    /\ g_j < g_count
    /\ g_op_count < g_N
    /\ LET pat == PatternFor(g_op_count)
           oc  == g_op_count + pat.ops
       IN  /\ g_op_count' = oc
           /\ g_emitted' = g_emitted + pat.appended
           /\ g_kinds' = Append(g_kinds, pat.kind)   \* the pattern of each cell visited
           /\ IF oc >= g_N \/ g_j + 1 = g_count
              THEN g_i' = g_i + 1 /\ g_j' = 0       \* break, or the inner loop is over
              ELSE g_i' = g_i /\ g_j' = g_j + 1
    /\ UNCHANGED <<g_pc, g_N, g_count>>
    /\ UNCHANGED <<gen_vars, write_vars, text_vars, frac_vars, spiral_vars,
                   main_vars>>

\* "if op_count >= operations_count: break" on entering the inner loop
grid_break ==
    /\ g_pc = "loop"
    /\ g_i < g_count
    /\ g_op_count >= g_N
    /\ g_i' = g_i + 1
    /\ g_j' = 0
    /\ UNCHANGED <<g_pc, g_N, g_count, g_op_count, g_emitted, g_kinds>>
    /\ UNCHANGED <<gen_vars, write_vars, text_vars, frac_vars, spiral_vars,
                   main_vars>>

\* the outer loop is over: g.add_g0(z=25.000); g.add_m5(); g.add_raw("")
grid_finish ==
    /\ g_pc = "loop"
    /\ g_i = g_count
    /\ g_pc' = "done"
    /\ UNCHANGED <<g_N, g_count, g_i, g_j, g_op_count, g_emitted, g_kinds>>
    /\ UNCHANGED <<gen_vars, write_vars, text_vars, frac_vars, spiral_vars,
                   main_vars>>

NextGrid == grid_cell \/ grid_break \/ grid_finish

SpecGrid == InitGrid /\ [][NextGrid]_vars

----------------------------------------------------------------------------
(* SpecText: generate_text_engraving, one step per character of the text.   *)
(* Lengths are in tenths of a millimetre.                                    *)

MaxText    == 3
MaxTextOps == 8

\* char_patterns, in tenths of the character size
char_patterns ==
    [ g |-> << <<4,6>>, <<4,8>>, <<2,8>>, <<0,6>>, <<0,4>>, <<0,2>>, <<2,0>>, <<4,0>>,
               <<4,2>>, <<4,-2>>, <<2,-2>>, <<0,-2>> >>,
      h |-> << <<0,0>>, <<0,10>>, <<0,5>>, <<2,5>>, <<4,5>>, <<4,0>> >>,
      s |-> << <<4,8>>, <<2,8>>, <<0,6>>, <<0,5>>, <<2,4>>, <<4,4>>, <<4,2>>, <<2,0>>,
               <<0,0>> >>,
      e |-> << <<0,4>>, <<4,4>>, <<4,6>>, <<2,8>>, <<0,6>>, <<0,2>>, <<2,0>>, <<4,0>> >>,
      n |-> << <<0,0>>, <<0,8>>, <<0,5>>, <<2,8>>, <<4,8>>, <<4,0>> >>,
      d |-> << <<4,0>>, <<4,10>>, <<4,8>>, <<2,8>>, <<0,6>>, <<0,2>>, <<2,0>>, <<4,0>> >>,
      r |-> << <<0,0>>, <<0,8>>, <<0,5>>, <<2,8>>, <<4,6>> >> ]

TextChars == {"h", "r", " "}

start_x   == 200
char_size == 100

\* char_size * 1.2
Pitch == (char_size * 12) \div 10

\* the number of pattern points drawn for a character: the inner loop stops
\* when op_count reaches operations_count
PointsDrawn(char, op_count, N) ==
    LET len == Len(char_patterns[char])
    IN  IF N - op_count < len THEN N - op_count ELSE len

InitText ==
    /\ t_pc = "loop"
    /\ t_text \in UNION { [1..n -> TextChars] : n \in 1..MaxText }
    /\ t_N \in 1..MaxTextOps
    /\ t_pos = 1
    /\ t_op_count = 0
    /\ t_char_x = start_x
    /\ t_log = <<>>
    /\ GenIdle /\ WriteIdle /\ GridIdle /\ FracIdle /\ SpiralIdle /\ MainIdle

\* one pass of "for char in text"; the log keeps, per character, the cursor
\* it was met with and the number of commands it appended
text_char ==
    /\ t_pc = "loop"
    /\ t_pos <= Len(t_text)
    /\ LET char == t_text[t_pos]
       IN  IF char \in DOMAIN char_patterns /\ t_op_count < t_N
           THEN LET pts == PointsDrawn(char, t_op_count, t_N)
                IN  \* G0 + G1 z for the first point, a G1 per further point, G0 z=2
                    /\ t_log' = Append(t_log, [char |-> char, char_x |-> t_char_x,
                                               appended |-> pts + 2])
                    /\ t_op_count' = t_op_count + pts
                    /\ t_char_x' = t_char_x + Pitch
           ELSE /\ t_log' = Append(t_log, [char |-> char, char_x |-> t_char_x,
                                           appended |-> 0])
                /\ UNCHANGED <<t_op_count, t_char_x>>
    /\ t_pos' = t_pos + 1
    /\ UNCHANGED <<t_pc, t_text, t_N>>
    /\ UNCHANGED <<gen_vars, write_vars, grid_vars, frac_vars, spiral_vars,
                   main_vars>>

\* the text is over: g.add_g0(z=25.000); g.add_m5(); g.add_raw("")
text_finish ==
    /\ t_pc = "loop"
    /\ t_pos > Len(t_text)
    /\ t_pc' = "done"
    /\ UNCHANGED <<t_text, t_N, t_pos, t_op_count, t_char_x, t_log>>
    /\ UNCHANGED <<gen_vars, write_vars, grid_vars, frac_vars, spiral_vars,
                   main_vars>>

NextText == text_char \/ text_finish

SpecText == InitText /\ [][NextText]_vars

----------------------------------------------------------------------------
(* SpecFractal: generate_fractal_pattern; the recursion of                   *)
(* koch_snowflake_segment runs on an explicit call stack, one step per call  *)
(* or return                                                                 *)

MaxDepth   == 2
MaxFracOps == 9

segments == 6

\* int(math.log2(n)) for n >= 1
RECURSIVE Log2Floor(_)
Log2Floor(n) == IF n < 2 THEN 0 ELSE 1 + Log2Floor(n \div 2)

Min(a, b) == IF a < b THEN a ELSE b

\* (variant: the requested depth is used as it is)
MaxDepthFor_Uncapped(depth, remaining_ops) == depth

\* min(depth, int(math.log2(remaining_ops)) if remaining_ops > 1 else 1)
MaxDepthFor(depth, remaining_ops) ==
    Min(depth, IF remaining_ops > 1 THEN Log2Floor(remaining_ops) ELSE 1)

\* a frame of koch_snowflake_segment: its iteration, the number of recursive
\* calls it has made and the ops it has summed up
Frame(iteration) == [iteration |-> iteration, called |-> 0, ops |-> 0]

InitFractal ==
    /\ f_pc = "loop"
    /\ f_depth \in 0..MaxDepth
    /\ f_N \in 1..MaxFracOps
    /\ f_i = 0
    /\ f_total_ops = 0
    /\ f_max_depth = 0
    /\ f_remaining = 0
    /\ f_stack = <<>>
    /\ f_ops = 0
    /\ f_expanded = 0
    /\ f_calls = 0
    /\ GenIdle /\ WriteIdle /\ GridIdle /\ TextIdle /\ SpiralIdle /\ MainIdle

\* one pass of "for i in range(segments)" up to the call of koch_snowflake_segment
frac_segment ==
    /\ f_pc = "loop"
    /\ f_i < segments
    /\ f_total_ops < f_N
    /\ f_remaining' = f_N - f_total_ops
    /\ f_max_depth' = MaxDepthFor(f_depth, f_N - f_total_ops)
    /\ f_stack' = <<Frame(0)>>
    /\ f_expanded' = f_expanded + 1
    /\ f_calls' = f_calls + 1
    /\ f_pc' = "koch"
    /\ UNCHANGED <<f_depth, f_N, f_i, f_total_ops, f_ops>>
    /\ UNCHANGED <<gen_vars, write_vars, grid_vars, text_vars, spiral_vars,
                   main_vars>>

\* the value a finished call hands back: to its caller's ops, or to the loop
Returned(stack, ops) ==
    LET rest == SubSeq(stack, 1, Len(stack) - 1)
    IN  IF rest = <<>> THEN rest
        ELSE [rest EXCEPT ![Len(rest)].ops = @ + ops]

\* if iteration >= max_iter: g.add_g1(...); return 1
koch_leaf ==
    /\ f_pc = "koch"
    /\ f_stack # <<>>
    /\ f_stack[Len(f_stack)].iteration >= f_max_depth
    /\ f_stack' = Returned(f_stack, 1)
    /\ f_ops' = IF Len(f_stack) = 1 THEN 1 ELSE f_ops
    /\ UNCHANGED <<f_pc, f_depth, f_N, f_i, f_total_ops, f_max_depth, f_remaining,
                   f_expanded, f_calls>>
    /\ UNCHANGED <<gen_vars, write_vars, grid_vars, text_vars, spiral_vars,
                   main_vars>>

\* ops += koch_snowflake_segment(..., iteration+1, max_iter): the next of the four calls
koch_recurse ==
    /\ f_pc = "koch"
    /\ f_stack # <<>>
    /\ LET top == f_stack[Len(f_stack)]
       IN  /\ top.iteration < f_max_depth
           /\ top.called < 4
           /\ f_stack' = Append([f_stack EXCEPT ![Len(f_stack)].called = @ + 1],
                                Frame(top.iteration + 1))
    /\ f_calls' = f_calls + 1
    /\ UNCHANGED <<f_pc, f_depth, f_N, f_i, f_total_ops, f_max_depth, f_remaining,
                   f_ops, f_expanded>>
    /\ UNCHANGED <<gen_vars, write_vars, grid_vars, text_vars, spiral_vars,
                   main_vars>>

\* return ops, after the four calls
koch_return ==
    /\ f_pc = "koch"
    /\ f_stack # <<>>
    /\ LET top == f_stack[Len(f_stack)]
       IN  /\ top.iteration < f_max_depth
           /\ top.called = 4
           /\ f_stack' = Returned(f_stack, top.ops)
           /\ f_ops' = IF Len(f_stack) = 1 THEN top.ops ELSE f_ops
    /\ UNCHANGED <<f_pc, f_depth, f_N, f_i, f_total_ops, f_max_depth, f_remaining,
                   f_expanded, f_calls>>
    /\ UNCHANGED <<gen_vars, write_vars, grid_vars, text_vars, spiral_vars,
                   main_vars>>

\* total_ops += ops, and on to the next base segment
frac_add ==
    /\ f_pc = "koch"
    /\ f_stack = <<>>
    /\ f_total_ops' = f_total_ops + f_ops
    /\ f_i' = f_i + 1
    /\ f_pc' = "loop"
    /\ UNCHANGED <<f_depth, f_N, f_max_depth, f_remaining, f_stack, f_ops,
                   f_expanded, f_calls>>
    /\ UNCHANGED <<gen_vars, write_vars, grid_vars, text_vars, spiral_vars,
                   main_vars>>

\* the loop breaks or is over: g.add_g0(z=25.000); g.add_m5(); g.add_raw("")
frac_finish ==
    /\ f_pc = "loop"
    /\ (f_i = segments \/ f_total_ops >= f_N)
    /\ f_pc' = "done"
    /\ UNCHANGED <<f_depth, f_N, f_i, f_total_ops, f_max_depth, f_remaining, f_stack,
                   f_ops, f_expanded, f_calls>>
    /\ UNCHANGED <<gen_vars, write_vars, grid_vars, text_vars, spiral_vars,
                   main_vars>>

NextFractal ==
    \/ frac_segment \/ koch_leaf \/ koch_recurse \/ koch_return
    \/ frac_add \/ frac_finish

SpecFractal == InitFractal /\ [][NextFractal]_vars

\* the generator is one sequential call: a step that can be taken is taken
SpecFractalFair == SpecFractal /\ WF_vars(NextFractal)

----------------------------------------------------------------------------
(* Commands as the add_* methods build them *)

\* a coordinate computed from the pattern geometry (a cell corner, a glyph
\* point, a point on a spiral or a Koch curve); its value plays no part in
\* what follows
Geo == [t |-> "geo", n |-> 0, d |-> 1]

CmdComment(text)         == [cmd |-> "comment", text |-> text]
CmdRaw(gcode)            == [cmd |-> "raw", gcode |-> gcode]
CmdG0(x, y, z)           == [cmd |-> "G0", x |-> x, y |-> y, z |-> z]
CmdG1(x, y, z, f)        == [cmd |-> "G1", x |-> x, y |-> y, z |-> z, f |-> f]
CmdG2(x, y, i, j, f)     == [cmd |-> "G2", x |-> x, y |-> y, i |-> i, j |-> j, f |-> f]
CmdM3(s)                 == [cmd |-> "M3", s |-> s]
CmdM5                    == [cmd |-> "M5"]
CmdM6(t, comment)        == [cmd |-> "M6", t |-> t, comment |-> comment]
CmdG4(p)                 == [cmd |-> "G4", p |-> p]

\* get_random_spindle_speed(): the two ends of random.randint(15000, 24000)
SpindleSpeeds == {Num(15000), Num(24000)}

----------------------------------------------------------------------------
(* SpecSpiral: generate_spiral_pattern, one step per pass of the loop        *)

MaxSpiralOps == 8

\* the two calls of main
SpiralArgs == { [center_x |-> 50,  center_y |-> 50, radius |-> 40, turns |-> 20],
                [center_x |-> 150, center_y |-> 50, radius |-> 30, turns |-> 15] }

\* z = -0.5 - (i / operations_count) * 1.5
SpiralZ(i, n) == RSub(Rat(-1, 2), RMul(Rat(i, n), Rat(3, 2)))

\* the commands of step i; at i = 0 the radius r is 0 and (x, y) is the centre
SpiralStep(args, i, n) ==
    IF i = 0
    THEN << CmdG0(Num(args.center_x), Num(args.center_y), None),
            CmdG1(None, None, SpiralZ(i, n), Num(300)) >>
    ELSE << CmdG1(Geo, Geo, None, Num(1000)) >>

SpiralPrologue(s) == << CmdComment("SPIRAL PATTERN"), CmdM3(s), CmdG4(Num(2)) >>

PatternEpilogue == << CmdG0(None, None, Num(25)), CmdM5, CmdRaw("") >>

InitSpiral ==
    /\ s_pc = "start"
    /\ s_args \in SpiralArgs
    /\ s_n \in 1..MaxSpiralOps
    /\ s_i = 0
    /\ s_cmds = <<>>
    /\ s_steps = <<>>
    /\ GenIdle /\ WriteIdle /\ GridIdle /\ TextIdle /\ FracIdle /\ MainIdle

\* the comment, g.add_m3(s=spindle_speed), g.add_dwell(p=2.0)
spiral_start ==
    /\ s_pc = "start"
    /\ \E s \in SpindleSpeeds : s_cmds' = s_cmds \o SpiralPrologue(s)
    /\ s_pc' = "loop"
    /\ UNCHANGED <<s_args, s_n, s_i, s_steps>>
    /\ UNCHANGED <<gen_vars, write_vars, grid_vars, text_vars, frac_vars, main_vars>>

\* one pass of "for i in range(operations_count)"; s_steps keeps, per step,
\* the local z and the positions in s_cmds of the commands the step appended
spiral_step ==
    /\ s_pc = "loop"
    /\ s_i < s_n
    /\ LET added == SpiralStep(s_args, s_i, s_n)
       IN  /\ s_cmds' = s_cmds \o added
           /\ s_steps' = Append(s_steps, [i |-> s_i, z |-> SpiralZ(s_i, s_n),
                                          from |-> Len(s_cmds) + 1,
                                          to |-> Len(s_cmds) + Len(added)])
    /\ s_i' = s_i + 1
    /\ UNCHANGED <<s_pc, s_args, s_n>>
    /\ UNCHANGED <<gen_vars, write_vars, grid_vars, text_vars, frac_vars, main_vars>>

\* the loop is over: g.add_g0(z=25.000); g.add_m5(); g.add_raw("")
spiral_finish ==
    /\ s_pc = "loop"
    /\ s_i = s_n
    /\ s_cmds' = s_cmds \o PatternEpilogue
    /\ s_pc' = "done"
    /\ UNCHANGED <<s_args, s_n, s_i, s_steps>>
    /\ UNCHANGED <<gen_vars, write_vars, grid_vars, text_vars, frac_vars, main_vars>>

NextSpiral == spiral_start \/ spiral_step \/ spiral_finish

SpecSpiral == InitSpiral /\ [][NextSpiral]_vars

----------------------------------------------------------------------------
(* SpecMain: main() builds the job, one step per call it makes               *)

MaxMainOps == 10

\* the operation counts handed to the generators
OpCounts == {1, 2, MaxMainOps}

\* write_header
HeaderCmds ==
    << CmdComment("Complex CNC Router Job"), CmdComment("Generated for graphics"),
       CmdComment("Scaled to Work Area"), CmdComment("Includes multiple toolchanges"),
       CmdRaw("G17 G21 G90 G64 P0.025"),
       CmdG0(None, None, Num(25)),
       CmdM6(Num(1), "Load Tool 1 - 6mm End Mill"),
       CmdG0(None, None, Num(10)),
       CmdRaw("") >>

\* add_tool_change
ToolChangeCmds(tool_number, tool_description) ==
    << CmdComment("TOOL CHANGE"),
       CmdG0(None, None, Num(25)),
       CmdG0(Num(0), Num(0), None),
       CmdM5,
       CmdG4(Num(3)),
       CmdM6(Num(tool_number), tool_description),
       CmdG4(Num(5)),
       CmdRaw("") >>

\* generate_spiral_pattern: the loop from step i on
RECURSIVE SpiralLoop(_, _, _)
SpiralLoop(args, i, n) ==
    IF i >= n THEN <<>> ELSE SpiralStep(args, i, n) \o SpiralLoop(args, i + 1, n)

SpiralCmds(args, n, s) == SpiralPrologue(s) \o SpiralLoop(args, 0, n) \o PatternEpilogue

\* (variant: the spindle is not started)
PatternPrologue_SpindleOff(name, s) == << CmdComment(name), CmdG4(Num(2)) >>

\* the comment, g.add_m3(s=spindle_speed), g.add_dwell(p=2.0) of the other generators
PatternPrologue(name, s) == << CmdComment(name), CmdM3(s), CmdG4(Num(2)) >>

\* the commands of one sub-pattern of the grid
PatternCmds(kind) ==
    CASE kind = "square" ->
           << CmdG1(Geo, Geo, None, Num(800)), CmdG1(Geo, Geo, None, None),
              CmdG1(Geo, Geo, None, None), CmdG1(Geo, Geo, None, None) >>
      [] kind = "circle" ->
           << CmdG0(Geo, Geo, None),
              CmdG2(Geo, Geo, Geo, Num(0), None), CmdG2(Geo, Geo, Num(0), Geo, None),
              CmdG2(Geo, Geo, Geo, Num(0), None), CmdG2(Geo, Geo, Num(0), Geo, None) >>
      [] kind = "triangle" ->
           << CmdG1(Geo, Geo, None, Num(800)), CmdG1(Geo, Geo, None, None),
              CmdG1(Geo, Geo, None, None) >>
      [] OTHER ->
           [k \in 1..8 |-> CmdG1(Geo, Geo, None, Num(800))]

\* the commands of one grid cell entered with op_count
GridCellCmds(op_count) ==
    (IF op_count = 0
     THEN << CmdG0(Geo, Geo, None), CmdG1(None, None, Num(-1), Num(300)) >>
     ELSE <<>>)
    \o PatternCmds(PatternFor(op_count).kind)

\* generate_grid_pattern: the two loops from cell (i, j) on
RECURSIVE GridLoop(_, _, _, _, _)
GridLoop(count, N, i, j, op_count) ==
    IF i >= count THEN <<>>
    ELSE IF op_count >= N THEN GridLoop(count, N, i + 1, 0, op_count)
    ELSE LET oc == op_count + PatternFor(op_count).ops
         IN  GridCellCmds(op_count)
             \o (IF oc >= N \/ j + 1 = count
                 THEN GridLoop(count, N, i + 1, 0, oc)
                 ELSE GridLoop(count, N, i, j + 1, oc))

GridCmds(count, N, s) ==
    PatternPrologue("GRID PATTERN", s) \o GridLoop(count, N, 0, 0, 0) \o PatternEpilogue

\* the commands of one rendered character
CharCmds(char, op_count, N) ==
    << CmdG0(Geo, Geo, None), CmdG1(None, None, Rat(-3, 10), Num(200)) >>
    \o [k \in 1..(PointsDrawn(char, op_count, N) - 1) |-> CmdG1(Geo, Geo, None, Num(400))]
    \o << CmdG0(None, None, Num(2)) >>

\* generate_text_engraving: the loop from character pos on
RECURSIVE TextLoop(_, _, _, _)
TextLoop(text, N, pos, op_count) ==
    IF pos > Len(text) THEN <<>>
    ELSE IF text[pos] \in DOMAIN char_patterns /\ op_count < N
         THEN CharCmds(text[pos], op_count, N)
              \o TextLoop(text, N, pos + 1, op_count + PointsDrawn(text[pos], op_count, N))
         ELSE TextLoop(text, N, pos + 1, op_count)

TextCmds(text, N, s) ==
    PatternPrologue("TEXT ENGRAVING", s) \o TextLoop(text, N, 1, 0) \o PatternEpilogue

\* koch_snowflake_segment: the commands it appends; it returns their number
RECURSIVE KochCmds(_, _)
KochCmds(iteration, max_iter) ==
    IF iteration >= max_iter
    THEN << CmdG1(Geo, Geo, None, Num(600)) >>
    ELSE KochCmds(iteration + 1, max_iter) \o KochCmds(iteration + 1, max_iter)
         \o KochCmds(iteration + 1, max_iter) \o KochCmds(iteration + 1, max_iter)

\* generate_fractal_pattern: the loop from base segment i on
RECURSIVE FractalLoop(_, _, _, _)
FractalLoop(depth, N, i, total_ops) ==
    IF i >= segments \/ total_ops >= N THEN <<>>
    ELSE LET added == KochCmds(0, MaxDepthFor(depth, N - total_ops))
         IN  added \o FractalLoop(depth, N, i + 1, total_ops + Len(added))

FractalCmds(x, y, depth, N, s) ==
    PatternPrologue("FRACTAL PATTERN", s)
    \o << CmdG0(Num(x), Num(y), None), CmdG1(None, None, Num(-1), Num(300)) >>
    \o FractalLoop(depth, N, 0, 0)
    \o PatternEpilogue

\* the finishing block of main
FinishingCmds ==
    << CmdComment("FINISHING"), CmdG0(None, None, Num(25)), CmdG0(Num(0), Num(0), None),
       CmdM5, CmdRaw("M30") >>

\* the calls of main, in order
MainCalls ==
    << "write_header",
       "spiral_1", "tool_change_2", "grid_1", "tool_change_3", "spiral_2",
       "tool_change_4", "text", "tool_change_5", "fractal", "tool_change_6", "grid_2",
       "finishing" >>

Ghsender == << "g", "h", "s", "e", "n", "d", "e", "r" >>

InitMain ==
    /\ m_pc = 1
    /\ m_cmds = <<>>
    /\ GenIdle /\ WriteIdle /\ GridIdle /\ TextIdle /\ FracIdle /\ SpiralIdle

AtCall(name) == m_pc <= Len(MainCalls) /\ MainCalls[m_pc] = name

Call(added) ==
    /\ m_cmds' = m_cmds \o added
    /\ m_pc' = m_pc + 1
    /\ UNCHANGED <<gen_vars, write_vars, grid_vars, text_vars, frac_vars, spiral_vars>>

main_header == AtCall("write_header") /\ Call(HeaderCmds)

main_spiral ==
    \E n \in OpCounts, s \in SpindleSpeeds :
       \/ AtCall("spiral_1") /\
            Call(SpiralCmds([center_x |-> 50, center_y |-> 50, radius |-> 40,
                             turns |-> 20], n, s))
       \/ AtCall("spiral_2") /\
            Call(SpiralCmds([center_x |-> 150, center_y |-> 50, radius |-> 30,
                             turns |-> 15], n, s))

main_tool_change ==
    \/ AtCall("tool_change_2") /\ Call(ToolChangeCmds(2, "3mm Ball End Mill"))
    \/ AtCall("tool_change_3") /\ Call(ToolChangeCmds(3, "1/8 V-Bit"))
    \/ AtCall("tool_change_4") /\ Call(ToolChangeCmds(4, "0.5mm Engraving Bit"))
    \/ AtCall("tool_change_5") /\ Call(ToolChangeCmds(5, "2mm End Mill"))
    \/ AtCall("tool_change_6") /\ Call(ToolChangeCmds(6, "4mm Compression Bit"))

main_grid ==
    \E N \in OpCounts, s \in SpindleSpeeds :
       \/ AtCall("grid_1") /\ Call(GridCmds(20, N, s))
       \/ AtCall("grid_2") /\ Call(GridCmds(15, N, s))

main_text ==
    /\ AtCall("text")
    /\ \E N \in OpCounts, s \in SpindleSpeeds : Call(TextCmds(Ghsender, N, s))

main_fractal ==
    /\ AtCall("fractal")
    /\ \E N \in OpCounts, s \in SpindleSpeeds : Call(FractalCmds(150, 150, 4, N, s))

\* the finishing block; generate_and_write then scales and writes the buffer
\* (Spec), which keeps the kind and the order of the commands
main_finish == AtCall("finishing") /\ Call(FinishingCmds)

NextMain ==
    \/ main_header \/ main_spiral \/ main_tool_change \/ main_grid
    \/ main_text \/ main_fractal \/ main_finish

SpecMain == InitMain /\ [][NextMain]_vars

----------------------------------------------------------------------------
(* Reading the written lines back *)

Letters(line) == [m \in 1..Len(line.params) |-> line.params[m].k]

HasToken(line, letter) == \E m \in 1..Len(line.params) : line.params[m].k = letter

TokenValue(line, letter) ==
    line.params[CHOOSE m \in 1..Len(line.params) : line.params[m].k = letter].v

\* the lines before line k that carry an F token
FLinesBefore(lines, k) == { m \in 1..(k - 1) : HasToken(lines[m], "F") }

SetMax(S) == CHOOSE m \in S : \A o \in S : o <= m

\* the feed rate of the most recently written F token before line k
LastWrittenF(lines, k) == TokenValue(lines[SetMax(FLinesBefore(lines, k))], "F")

Feeds(cmds) == [k \in 1..Len(cmds) |-> IF Has(cmds[k], "f") THEN cmds[k].f ELSE None]

ExampleFeeds == <<Num(300), Num(300), Num(1000), Num(1000), Num(1000)>>

(* C3: walking a command sequence in order, a line carries an F token if and
   only if its command has a non-None feed rate that differs from the feed
   rate of the most recently written F token of this run (or no F token has
   been written yet); the token shows that feed rate; the tracked value is
   always the last written feed rate, so commands without a feed rate leave
   it unchanged; feeds [300, 300, 1000, 1000, 1000] give F tokens on lines
   1 and 3 only. *)
C3_ModalFeedRate ==
    /\ Len(wlines) <= Len(wcur)
    /\ \A k \in 1..Len(wlines) :
          /\ HasToken(wlines[k], "F") <=>
                /\ Present(wcur[k], "f")
                /\ \/ FLinesBefore(wlines, k) = {}
                   \/ wcur[k].f # LastWrittenF(wlines, k)
          /\ HasToken(wlines[k], "F") => TokenValue(wlines[k], "F") = wcur[k].f
    /\ wpos >= 1 =>
          current_feed_rate =
              IF FLinesBefore(wlines, Len(wlines) + 1) = {} THEN None
              ELSE LastWrittenF(wlines, Len(wlines) + 1)
    /\ (Feeds(wcur) = ExampleFeeds /\ Len(wlines) = 5) =>
          { k \in 1..5 : HasToken(wlines[k], "F") } = {1, 3}

C3_Witness ==
    /\ Feeds(wcur) = ExampleFeeds
    /\ wpos = 0
    /\ Len(wlines) = 5
    /\ { k \in 1..5 : HasToken(wlines[k], "F") } = {1, 3}

(* C4: every finished run of _write_file on the same command sequence leaves
   the same file as the first finished run on it, whatever runs came before
   or in between. *)
C4_SameOutputEveryRun ==
    (wpos = 0 /\ wdone /\ wcur = wcmds) => wlines = wfirst

C4_Witness ==
    /\ wruns = <<"main", "other", "main">>
    /\ wpos = 0
    /\ wlines = wfirst
    /\ Len(wfirst) >= 2
    /\ HasToken(wfirst[1], "F")

----------------------------------------------------------------------------
(* Reading the scaled sequence back *)

Axes == {"x", "y", "z"}

Dim(k) == CASE k = "x" -> work_envelope.width
            [] k = "y" -> work_envelope.depth
            [] k = "z" -> work_envelope.height

EnvelopePositive == \A k \in Axes : RLess(Num(0), Dim(k))

\* the scaling pass ran and handed its sequence to _write_file
Scaled == phase = "written" /\ coords(commands) # <<>>

AllFinite(cs, k) == \A v \in AxisValues(cs, k) : IsNum(v)

\* max - min over the non-None values of axis k (0 when there is none)
ExtentOf(cs, k) ==
    LET S == AxisValues(cs, k)
    IN  IF S = {} THEN Num(0) ELSE RSub(MaxDefault(S), MinDefault(S))

OriginalExtent(k) == ExtentOf(commands, k)
ScaledExtent(k)   == ExtentOf(transformed_commands, k)

\* envelope_dim / extent of an axis with a positive extent
Candidate(k) == RDiv(Dim(k), OriginalExtent(k))

\* axis k has the minimum candidate among the axes with a positive extent
Determining(k) ==
    /\ RLess(Num(0), OriginalExtent(k))
    /\ \A j \in Axes : RLess(Num(0), OriginalExtent(j)) => RLeq(Candidate(k), Candidate(j))

FitsEnvelope ==
    /\ phase = "written"
    /\ \A k \in Axes :
          /\ AllFinite(transformed_commands, k)
          /\ RLeq(ScaledExtent(k), Dim(k))
    /\ \A k \in Axes : Determining(k) => ScaledExtent(k) = Dim(k)

(* C1 as claimed: whenever some axis has an extent greater than zero and the
   envelope is strictly positive, every scaled extent is at most its envelope
   dimension and the axis with the minimum candidate fills its dimension. *)
C1_AsClaimed ==
    ( /\ phase # "building"
      /\ EnvelopePositive
      /\ \E k \in Axes : RLess(Num(0), OriginalExtent(k)) )
    => FitsEnvelope

(* C1 amended: the same, for the buffers in which every axis extent is
   either zero or greater than 1e-6 and at least one is greater than 1e-6. *)
C1_FitsEnvelope ==
    ( /\ phase # "building"
      /\ EnvelopePositive
      /\ \E k \in Axes : RLess(Eps, OriginalExtent(k))
      /\ \A k \in Axes : OriginalExtent(k) = Num(0) \/ RLess(Eps, OriginalExtent(k)) )
    => FitsEnvelope

C1_Witness ==
    /\ Scaled
    /\ EnvelopePositive
    /\ \A k \in Axes : RLess(Eps, OriginalExtent(k))
    /\ \E k, j \in Axes :
          /\ Determining(k)
          /\ RLess(Candidate(k), Candidate(j))
          /\ ScaledExtent(k) = Dim(k)
          /\ RLess(ScaledExtent(j), Dim(j))

(* C2: every non-None i or j becomes the original value times scale_factor,
   with no minimum subtracted, while every non-None x, y, z becomes
   (v - min_axis) * scale_factor. *)
C2_OffsetsScaledNotTranslated ==
    Scaled =>
      \A n \in 1..Len(commands) :
         LET c == commands[n]
             t == transformed_commands[n]
         IN  /\ \A k \in {"i", "j"} : Present(c, k) => t[k] = FMul(c[k], scale_factor)
             /\ \A k \in Axes :
                   Present(c, k) =>
                      t[k] = FMul(RSub(c[k], MinDefault(AxisValues(commands, k))),
                                  scale_factor)

C2_Witness ==
    /\ Scaled
    /\ IsNum(scale_factor)
    /\ MinDefault(AxisValues(commands, "x")) # Num(0)
    /\ \E n \in 1..Len(commands) :
          /\ Present(commands[n], "i")
          /\ Present(commands[n], "x")
          /\ commands[n].i # Num(0)
          /\ transformed_commands[n].i = RMul(commands[n].i, scale_factor)
          /\ transformed_commands[n].x # RMul(commands[n].x, scale_factor)

\* some command carries a present x, y or z
CoordinateBearing == \E n \in 1..Len(commands) : \E k \in Axes : Present(commands[n], k)

(* C8 as claimed: with a coordinate-bearing command in the buffer,
   generate_and_write raises nothing, scale_factor is a finite positive
   number and every scaled coordinate is finite, whatever the envelope and
   the extents. *)
C8_AsClaimed ==
    (phase # "building" /\ CoordinateBearing) =>
       /\ phase = "written"
       /\ IsNum(scale_factor)
       /\ RLess(Num(0), scale_factor)
       /\ \A n \in 1..Len(transformed_commands) :
             \A k \in {"x", "y", "z", "i", "j"} :
                Present(transformed_commands[n], k) => IsNum(transformed_commands[n][k])

NoPresentCoordinate ==
    \A n \in 1..Len(commands) :
       \A k \in {"x", "y", "z", "i", "j"} : ~Present(commands[n], k)

(* C9: when no command has a non-None x, y, z, i or j, generate_and_write
   raises nothing, changes no command and writes exactly the serialization
   of the buffer. *)
C9_NoCoordinatesUnchanged ==
    (phase # "building" /\ NoPresentCoordinate) =>
       /\ phase = "written"
       /\ file = write_file(commands)
       /\ coords(commands) # <<>> => transformed_commands = commands

C9_Witness ==
    /\ phase = "written"
    /\ NoPresentCoordinate
    /\ coords(commands) # <<>>
    /\ Len(commands) = 3
    /\ \E n \in 1..Len(file) : file[n].params # <<>>

Order == <<"T", "S", "P", "X", "Y", "Z", "I", "J", "F">>

OrderIndex(letter) == CHOOSE m \in 1..Len(Order) : Order[m] = letter

FieldOf(letter) ==
    CASE letter = "T" -> "t" [] letter = "S" -> "s" [] letter = "P" -> "p"
      [] letter = "X" -> "x" [] letter = "Y" -> "y" [] letter = "Z" -> "z"
      [] letter = "I" -> "i" [] letter = "J" -> "j" [] letter = "F" -> "f"

\* the sequence generate_and_write handed to _write_file
Written == IF coords(commands) = <<>> THEN commands ELSE transformed_commands

(* C10: the file has one line per command, line k rendered from command k
   (comment and raw commands too); on a command line the tokens follow the
   keyword in the order T, S, P, X, Y, Z, I, J, F, a token is there only if
   its field is present and non-None, every present T, S, P, X, Y, Z, I, J
   field has its token, and a non-empty comment comes last. *)
C10_LinePerCommandInOrder ==
    phase = "written" =>
      /\ Len(file) = Len(Written)
      /\ \A n \in 1..Len(file) :
            LET c == Written[n]
                l == file[n]
            IN  CASE c.cmd = "comment" ->
                       l.fmt = "comment" /\ l.tail = c.text /\ l.params = <<>>
                  [] c.cmd = "raw" ->
                       l.fmt = "raw" /\ l.head = c.gcode /\ l.params = <<>>
                  [] OTHER ->
                       /\ l.fmt = "cmd"
                       /\ l.head = c.cmd
                       /\ \A m \in 1..Len(l.params) :
                             \E o \in 1..Len(Order) : Order[o] = l.params[m].k
                       /\ \A m1, m2 \in 1..Len(l.params) :
                             m1 < m2 => OrderIndex(l.params[m1].k) < OrderIndex(l.params[m2].k)
                       /\ \A o \in 1..Len(Order) :
                             HasToken(l, Order[o]) => Present(c, FieldOf(Order[o]))
                       /\ \A o \in 1..(Len(Order) - 1) :
                             Present(c, FieldOf(Order[o])) => HasToken(l, Order[o])
                       /\ l.tail = IF Has(c, "comment") THEN c.comment ELSE ""

C10_Witness ==
    /\ phase = "written"
    /\ Len(file) = 3
    /\ file[1].fmt = "comment"
    /\ Letters(file[2]) = <<"X", "Y", "J", "F">>
    /\ Letters(file[3]) = <<"T">>
    /\ file[3].tail # ""

----------------------------------------------------------------------------
(* The generators *)

(* C5 as claimed: when generate_grid_pattern stops, its cumulative operation
   count is at least operations_count and less than operations_count + 8. *)
C5_AsClaimed ==
    g_pc = "done" => (g_op_count >= g_N /\ g_op_count < g_N + 8)

(* C6 as claimed: a character without a stroke pattern appends no command,
   and the k-th character of the text (k = 0, 1, ...) is met with the cursor
   at start_x + k * char_size * 1.2 whether or not the characters before it
   were rendered. *)
C6_AsClaimed ==
    \A k \in 1..Len(t_log) :
       /\ t_log[k].char \notin DOMAIN char_patterns => t_log[k].appended = 0
       /\ t_log[k].char_x = start_x + (k - 1) * Pitch

(* C11 as claimed: an invocation of generate_grid_pattern with
   count*count >= 4 cells that visits at least 4 cells emits each of the
   square, arc-circle, triangle and wave sub-patterns for at least one cell. *)
C11_AsClaimed ==
    (g_pc = "done" /\ g_count * g_count >= 4 /\ Len(g_kinds) >= 4)
       => { g_kinds[k] : k \in 1..Len(g_kinds) }
             = {"square", "circle", "triangle", "wave"}

RECURSIVE Pow2(_)
Pow2(k) == IF k = 0 THEN 1 ELSE 2 * Pow2(k - 1)

\* the depth cap and the recursion stay within their bounds
C7_Bounded ==
    /\ \A n \in 1..Len(f_stack) :
          /\ f_stack[n].iteration <= f_max_depth
          /\ f_stack[n].iteration = n - 1
    /\ f_pc = "koch" =>
          /\ f_max_depth <= f_depth
          /\ f_remaining > 1 => Pow2(f_max_depth) <= f_remaining
          /\ f_remaining = 1 => f_max_depth <= 1
    /\ f_expanded <= 6

(* C7: generate_fractal_pattern terminates for every depth >= 0 and every
   operations_count >= 1; every call of koch_snowflake_segment has
   iteration <= max_iter; max_iter is at most min(depth,
   floor(log2(remaining_ops))) when remaining_ops > 1 and at most 1 when
   remaining_ops = 1; at most 6 base segments are expanded. *)
C7_TerminatesWithinCap == []C7_Bounded /\ <>(f_pc = "done")

C7_Witness ==
    /\ f_pc = "done"
    /\ f_N = 3
    /\ f_depth = 2
    /\ f_expanded = 1
    /\ f_total_ops = 4

(* C12 as claimed: when generate_fractal_pattern stops, the total number of
   linear-feed segments emitted is less than operations_count + 4, and no
   base segment is started once total_ops >= operations_count. *)
C12_AsClaimed ==
    /\ f_pc = "done" => f_total_ops < f_N + 4
    /\ f_pc = "koch" => f_total_ops < f_N

(* C13 as claimed: for every step i in 0..n-1 of generate_spiral_pattern, a
   command emitted for step i carries a z field equal to
   -0.5 - (i/n) * 1.5. *)
C13_AsClaimed ==
    \A k \in 1..Len(s_steps) :
       \E c \in s_steps[k].from .. s_steps[k].to :
          /\ Present(s_cmds[c], "z")
          /\ s_cmds[c].z = SpiralZ(s_steps[k].i, s_n)

----------------------------------------------------------------------------
(* The frame of the scaling pass *)

ScaledKeys == {"x", "y", "z", "i", "j"}

\* the transformed sequence differs from the buffer in present coordinates only
SameButCoordinates ==
    Scaled =>
      /\ Len(transformed_commands) = Len(commands)
      /\ \A n \in 1..Len(commands) :
            LET c == commands[n]
                t == transformed_commands[n]
            IN  /\ DOMAIN t = DOMAIN c
                /\ t.cmd = c.cmd
                /\ \A k \in DOMAIN c :
                      (k \notin ScaledKeys \/ c[k] = None) => t[k] = c[k]

\* generate_and_write leaves self.commands as it found it
BufferKept == (phase = "building" /\ phase' # "building") => commands' = commands

(* C14: the scaling pass changes nothing but present coordinate values: the
   transformed sequence has the length of the buffer, command k keeps its
   kind, every field other than a non-None x, y, z, i, j is unchanged, a
   field that is absent or None stays absent or None, and self.commands is
   left unmodified. *)
C14_ScalingFrame == []SameButCoordinates /\ [][BufferKept]_vars

C14_Witness ==
    /\ Scaled
    /\ IsNum(scale_factor)
    /\ \E n \in 1..Len(commands) : commands[n].cmd = "M3"
    /\ \E n \in 1..Len(commands) :
          /\ commands[n].cmd = "G1"
          /\ Present(commands[n], "f")
          /\ Has(commands[n], "z") /\ commands[n].z = None
          /\ Present(commands[n], "x")
          /\ transformed_commands[n].x # commands[n].x

----------------------------------------------------------------------------
(* The job built by main *)

\* is the spindle on when command k of cmds is met: an M3 before it with no
\* M5 since
RECURSIVE SpindleOn(_, _)
SpindleOn(cmds, k) ==
    IF k <= 1 THEN FALSE
    ELSE CASE cmds[k - 1].cmd = "M3" -> TRUE
           [] cmds[k - 1].cmd = "M5" -> FALSE
           [] OTHER -> SpindleOn(cmds, k - 1)

\* the M6 at position k ends the sequence raise Z, return to origin, M5,
\* dwell, M6, dwell
ToolChangeOrder(cmds, k) ==
    /\ k > 4
    /\ k < Len(cmds)
    /\ cmds[k - 4] = CmdG0(None, None, Num(25))
    /\ cmds[k - 3] = CmdG0(Num(0), Num(0), None)
    /\ cmds[k - 2].cmd = "M5"
    /\ cmds[k - 1].cmd = "G4"
    /\ cmds[k + 1].cmd = "G4"

(* C15: in the command sequence built by main, for any operation counts,
   every G1 or G2 occurs while the spindle is on (after an M3 with no M5
   since), every M3 is immediately followed by a dwell, every M6 occurs
   while the spindle is off, and the tool-change helper appends in order
   raise-Z, return-to-origin, M5, dwell, M6, dwell. *)
C15_SpindleDiscipline ==
    \A k \in 1..Len(m_cmds) :
       LET c == m_cmds[k]
       IN  /\ c.cmd \in {"G1", "G2"} => SpindleOn(m_cmds, k)
           /\ c.cmd = "M3" => (k < Len(m_cmds) /\ m_cmds[k + 1].cmd = "G4")
           /\ c.cmd = "M6" => ~SpindleOn(m_cmds, k)
           /\ (c.cmd = "M6" /\ c.t # Num(1)) => ToolChangeOrder(m_cmds, k)

C15_Witness ==
    /\ m_pc = Len(MainCalls) + 1
    /\ Cardinality({k \in 1..Len(m_cmds) : m_cmds[k].cmd = "M3"}) = 6
    /\ Cardinality({k \in 1..Len(m_cmds) : m_cmds[k].cmd = "M6"}) = 6
    /\ Cardinality({k \in 1..Len(m_cmds) : m_cmds[k].cmd = "G1"}) > 100

====
